---- MODULE Spec2Model ----
(***************************************************************************)
(* Model of sync_google_sheet.py: download_csv (the Fetcher), csv_to_json  *)
(* (the Transformer), sync_google_sheet (the Orchestrator) and main.       *)
(*                                                                         *)
(* A Python str is a sequence of chunks (TLA+ strings): a whitespace       *)
(* character, a digit, a sign, a punctuation character, or a run of        *)
(* letters.  The empty str is << >>.  Python's None is the value None      *)
(* below, which no str of the model equals.                                *)
(*                                                                         *)
(* The display-name column of the sheet has a non-ASCII header; it is      *)
(* written "name" here.                                                    *)
(***************************************************************************)
EXTENDS Integers, Sequences, FiniteSets, TLC

VARIABLES
    pc,               \* position of the run: start, transform, rows, exit
    skip_download,    \* args.skip_download
    output_dir_ok,    \* output_dir.mkdir(parents=True, exist_ok=True) succeeds
    sheet,            \* what the spreadsheet host answers to the export request
    csv_file,         \* the byte store: NoFile or its content
    docs,             \* the output directory: gem_id -> document
    writes,           \* the json.dump calls of this run, in order: <<gem_id, document>>
    processed_count,
    skipped_count,
    idx,              \* data rows the reader has yielded so far
    report,           \* the kind of the last message the row loop printed
    fetch,            \* what download_csv did in this run
    calls,            \* how many times csv_to_json was entered in this run
    exit_code         \* sys.exit's argument, NoExit while running

vars == <<pc, skip_download, output_dir_ok, sheet, csv_file, docs, writes, processed_count,
          skipped_count, idx, report, fetch, calls, exit_code>>

----------------------------------------------------------------------------
(* Bounds *)

\* The longest table of the pipeline specification, in data rows.
MaxRows == 3

----------------------------------------------------------------------------
(* Python values *)

None == <<"<None>">>
NoFile == [header |-> << >>, lines |-> << >>, trailer |-> "nofile"]
\* exit_code while the process runs
NoExit == 0 - 1

Whitespace == {" ", "\t"}
Digits == {"0", "1", "2", "3", "4", "5", "6", "7", "8", "9"}

RECURSIVE LStrip(_)
LStrip(s) ==
    IF s # << >> /\ Head(s) \in Whitespace THEN LStrip(Tail(s)) ELSE s

RECURSIVE RStrip(_)
RStrip(s) ==
    IF s # << >> /\ s[Len(s)] \in Whitespace
    THEN RStrip(SubSeq(s, 1, Len(s) - 1))
    ELSE s

\* str.strip()
Strip(s) == RStrip(LStrip(s))

DigitValue(c) ==
    CASE c = "0" -> 0 [] c = "1" -> 1 [] c = "2" -> 2 [] c = "3" -> 3
      [] c = "4" -> 4 [] c = "5" -> 5 [] c = "6" -> 6 [] c = "7" -> 7
      [] c = "8" -> 8 [] c = "9" -> 9

\* The digits of an int literal: digits, with single underscores between them.
IsDigitString(s) ==
    /\ s # << >>
    /\ s[1] \in Digits
    /\ s[Len(s)] \in Digits
    /\ \A i \in 1..Len(s) : s[i] \in Digits \cup {"_"}
    /\ \A i \in 1..(Len(s) - 1) : ~(s[i] = "_" /\ s[i + 1] = "_")

RECURSIVE DigitsValue(_)
DigitsValue(s) ==
    IF s = << >> THEN 0
    ELSE IF s[Len(s)] = "_" THEN DigitsValue(SubSeq(s, 1, Len(s) - 1))
    ELSE 10 * DigitsValue(SubSeq(s, 1, Len(s) - 1)) + DigitValue(s[Len(s)])

Unsigned(s) == IF s # << >> /\ Head(s) \in {"+", "-"} THEN Tail(s) ELSE s

\* int(s) raises ValueError
IntRaises(s) == ~IsDigitString(Unsigned(Strip(s)))

\* IntValue with the sign dropped
IntValueIgnoringSign(s) == DigitsValue(Unsigned(Strip(s)))

\* int(s), where it does not raise
IntValue(s) ==
    LET t == Strip(s)
    IN  IF t # << >> /\ Head(t) = "-"
        THEN 0 - DigitsValue(Unsigned(t))
        ELSE DigitsValue(Unsigned(t))

----------------------------------------------------------------------------
(* The table *)

REQUIRED_COLUMNS ==
    <<"ID", "name", "Category", "Color", "Cut", "Carat", "Clarity", "Rarity",
      "image", "animation_url">>

Range(s) == {s[i] : i \in 1..Len(s)}

IndexOf(s, x) == CHOOSE i \in 1..Len(s) : s[i] = x

\* csv.DictReader's row: the header's names zipped with the line's values, a
\* name the line is too short for mapped to None; values beyond the header are
\* kept under a key no column has, which nothing reads.
DictRow(header, line) ==
    [c \in Range(header) |->
        IF IndexOf(header, c) <= Len(line) THEN line[IndexOf(header, c)] ELSE None]

\* row.get(col, default)
Get(row, col, default) == IF col \in DOMAIN row THEN row[col] ELSE default

----------------------------------------------------------------------------
(* csv_to_json: the body of the row loop *)

\* IdBlank without the strip
IdBlankNoStrip(row) ==
    LET v == Get(row, "ID", None)
    IN  v = None \/ v = << >>

\* "Skip empty rows": not row.get('ID') or not row.get('ID').strip()
IdBlank(row) ==
    LET v == Get(row, "ID", None)
    IN  v = None \/ v = << >> \/ Strip(v) = << >>

\* row.get(col, '').strip() raises AttributeError when the value is None: the
\* line is shorter than the header.
ExtractRaises(row) ==
    \E c \in Range(REQUIRED_COLUMNS) : Get(row, c, << >>) = None

\* The ten extracted values, by column: gem_id, name, category, color_code,
\* cut, carat, clarity, rarity, image, animation_url.
Extract(row) ==
    [c \in Range(REQUIRED_COLUMNS) |-> Strip(Get(row, c, << >>))]

\* color_name with the color code taking precedence
color_name_CodeFirst(f) ==
    IF f["Color"] # << >> THEN f["Color"] ELSE f["Category"]

\* color_name = category if category else color_code
color_name(f) == IF f["Category"] # << >> THEN f["Category"] ELSE f["Color"]

\* AllRequired with image left out of the list
AllRequiredButImage(f) ==
    /\ f["name"] # << >>
    /\ color_name(f) # << >>
    /\ f["Cut"] # << >>
    /\ f["Carat"] # << >>
    /\ f["Clarity"] # << >>
    /\ f["Rarity"] # << >>
    /\ f["animation_url"] # << >>

\* all([name, color_name, cut, carat, clarity, rarity, image, animation_url])
AllRequired(f) ==
    /\ f["name"] # << >>
    /\ color_name(f) # << >>
    /\ f["Cut"] # << >>
    /\ f["Carat"] # << >>
    /\ f["Clarity"] # << >>
    /\ f["Rarity"] # << >>
    /\ f["image"] # << >>
    /\ f["animation_url"] # << >>

\* generate_description without the alias
generate_description_Verbatim(cut, color) ==
    <<"A unique ">> \o cut \o <<" cut gemstone in ">> \o color \o <<" color.">>

generate_description(cut, color) ==
    LET cut_display ==
            IF cut = <<"Brilliant">> THEN <<"RoundBrilliant">> ELSE cut
    IN  <<"A unique ">> \o cut_display \o <<" cut gemstone in ">> \o color
            \o <<" color.">>

json_data(f) ==
    [name |-> f["name"],
     description |-> generate_description(f["Cut"], color_name(f)),
     attributes |->
        <<[trait_type |-> "Cut", value |-> f["Cut"]],
          [trait_type |-> "Color", value |-> color_name(f)],
          [trait_type |-> "Carat", value |-> IntValue(f["Carat"])],
          [trait_type |-> "Clarity", value |-> f["Clarity"]],
          [trait_type |-> "Rarity", value |-> f["Rarity"]]>>,
     image |-> f["image"],
     animation_url |-> f["animation_url"]]

\* open(output_dir / f"{gem_id}.json", 'w') raises when the path names a
\* directory below output_dir: the program creates output_dir and nothing
\* below it.
OpenRaises(gem_id) == "/" \in Range(gem_id)

\* What one pass of the loop body does with a row: "continue" (neither
\* counter), "skipped" (skipped_count += 1) or "processed" (the document is
\* written, processed_count += 1), and the message it prints.  The handler of
\* KeyError is never entered: every lookup is a row.get with a default.
RowResult(row) ==
    IF IdBlank(row)
    THEN [kind |-> "continue", report |-> "none"]
    ELSE IF ExtractRaises(row)
    THEN [kind |-> "skipped", report |-> "Error processing row"]
    ELSE LET f == Extract(row)
         IN  IF ~AllRequired(f)
             THEN [kind |-> "skipped", report |-> "Missing required fields"]
             ELSE IF IntRaises(f["Carat"])
             THEN [kind |-> "skipped", report |-> "Invalid carat value"]
             ELSE IF OpenRaises(f["ID"])
             THEN [kind |-> "skipped", report |-> "Error processing row"]
             ELSE [kind |-> "processed", report |-> "none",
                   gem_id |-> f["ID"], doc |-> json_data(f)]

\* WriteJson that leaves an existing file as it is
WriteJsonKeepFirst(dir, gem_id, doc) == dir @@ (gem_id :> doc)

\* The output directory after json.dump into <gem_id>.json
WriteJson(dir, gem_id, doc) == (gem_id :> doc) @@ dir

----------------------------------------------------------------------------
(* download_csv *)

\* The file can be read back as UTF-8 text, to its end.
Decodes(content) == content.trailer = "eof"

\* What download_csv does, given the host's answer and whether the local
\* mkdir and open succeed: the byte store afterwards, and the value returned.
download_csv(answer, disk_ok, store) ==
    IF answer.status # "ok"
    THEN [store |-> store, received |-> FALSE, wrote |-> FALSE, ok |-> FALSE]
    ELSE IF ~disk_ok
    THEN [store |-> store, received |-> TRUE, wrote |-> FALSE, ok |-> FALSE]
    ELSE [store |-> answer.data, received |-> TRUE, wrote |-> TRUE,
          ok |-> Decodes(answer.data)]

NotFetched == [called |-> FALSE, received |-> FALSE, wrote |-> FALSE, ok |-> FALSE]

----------------------------------------------------------------------------
(* The run: main, sync_google_sheet, csv_to_json *)

\* sync_google_sheet returns False; main exits 1.
Fail ==
    /\ pc' = "exit"
    /\ exit_code' = 1

\* An exception no handler catches leaves main: the interpreter exits 1.
Uncaught ==
    /\ pc' = "exit"
    /\ exit_code' = 1

\* Download that goes on to the transform whatever download_csv returned
DownloadThenTransform ==
    /\ pc = "start"
    /\ ~skip_download
    /\ \E disk_ok \in BOOLEAN :
        LET d == download_csv(sheet, disk_ok, csv_file)
        IN  /\ csv_file' = d.store
            /\ fetch' = [called |-> TRUE, received |-> d.received,
                         wrote |-> d.wrote, ok |-> d.ok]
    /\ pc' = "transform"
    /\ UNCHANGED <<skip_download, output_dir_ok, sheet, docs, writes, processed_count,
                   skipped_count, idx, report, calls, exit_code>>

\* Step 1 of sync_google_sheet without --skip-download
Download ==
    /\ pc = "start"
    /\ ~skip_download
    /\ \E disk_ok \in BOOLEAN :
        LET d == download_csv(sheet, disk_ok, csv_file)
        IN  /\ csv_file' = d.store
            /\ fetch' = [called |-> TRUE, received |-> d.received,
                         wrote |-> d.wrote, ok |-> d.ok]
            /\ IF d.ok
               THEN pc' = "transform" /\ exit_code' = exit_code
               ELSE Fail
    /\ UNCHANGED <<skip_download, output_dir_ok, sheet, docs, writes, processed_count,
                   skipped_count, idx, report, calls>>

\* Step 1 of sync_google_sheet with --skip-download
SkipDownload ==
    /\ pc = "start"
    /\ skip_download
    /\ IF csv_file = NoFile
       THEN Fail
       ELSE pc' = "transform" /\ exit_code' = exit_code
    /\ UNCHANGED <<skip_download, output_dir_ok, sheet, csv_file, docs, writes,
                   processed_count, skipped_count, idx, report, fetch, calls>>

\* csv_to_json up to the loop: the mkdir of the output directory, which no
\* handler covers, the existence check, the open, the counters
OpenCsv ==
    /\ pc = "transform"
    /\ calls' = calls + 1
    /\ processed_count' = 0
    /\ skipped_count' = 0
    /\ idx' = 0
    /\ IF ~output_dir_ok THEN Uncaught
       ELSE IF csv_file = NoFile THEN Fail
       ELSE pc' = "rows" /\ exit_code' = exit_code
    /\ UNCHANGED <<skip_download, output_dir_ok, sheet, csv_file, docs, writes,
                   report, fetch>>

\* One pass of "for row in reader"
ProcessRow ==
    /\ pc = "rows"
    /\ idx < Len(csv_file.lines)
    /\ LET row == DictRow(csv_file.header, csv_file.lines[idx + 1])
           r == RowResult(row)
       IN  /\ idx' = idx + 1
           /\ report' = r.report
           /\ IF r.kind = "processed"
              THEN /\ docs' = WriteJson(docs, r.gem_id, r.doc)
                   /\ writes' = Append(writes, <<r.gem_id, r.doc>>)
                   /\ processed_count' = processed_count + 1
                   /\ skipped_count' = skipped_count
              ELSE /\ UNCHANGED <<docs, writes, processed_count>>
                   /\ skipped_count' =
                        IF r.kind = "skipped" THEN skipped_count + 1
                        ELSE skipped_count
    /\ UNCHANGED <<pc, skip_download, output_dir_ok, sheet, csv_file, fetch, calls, exit_code>>

\* The reader raises (the rest of the file does not decode): the outer
\* handler of csv_to_json returns False.
ReadError ==
    /\ pc = "rows"
    /\ idx = Len(csv_file.lines)
    /\ csv_file.trailer = "undecodable"
    /\ Fail
    /\ UNCHANGED <<skip_download, output_dir_ok, sheet, csv_file, docs, writes,
                   processed_count, skipped_count, idx, report, fetch, calls>>

\* EndOfRows that reports failure when a row was skipped
EndOfRowsFailOnSkips ==
    /\ pc = "rows"
    /\ idx = Len(csv_file.lines)
    /\ csv_file.trailer = "eof"
    /\ pc' = "exit"
    /\ exit_code' = IF skipped_count > 0 THEN 1 ELSE 0
    /\ UNCHANGED <<skip_download, output_dir_ok, sheet, csv_file, docs, writes,
                   processed_count, skipped_count, idx, report, fetch, calls>>

\* The reader is exhausted: csv_to_json and sync_google_sheet return True,
\* main exits 0.
EndOfRows ==
    /\ pc = "rows"
    /\ idx = Len(csv_file.lines)
    /\ csv_file.trailer = "eof"
    /\ pc' = "exit"
    /\ exit_code' = 0
    /\ UNCHANGED <<skip_download, output_dir_ok, sheet, csv_file, docs, writes,
                   processed_count, skipped_count, idx, report, fetch, calls>>

Next == Download \/ SkipDownload \/ OpenCsv \/ ProcessRow \/ ReadError \/ EndOfRows

----------------------------------------------------------------------------
(* Inputs *)

\* Raw cell values of the row specification, by column.
CellValues(c) ==
    CASE c = "ID" -> {<<" ", "g", "1">>, <<" ">>}
      [] c = "name" -> {<<"Gem">>, <<" ">>}
      [] c = "Category" -> {<<"Ruby">>, << >>}
      [] c = "Color" -> {<<"#", "FF0000">>, <<"\t">>}
      [] c = "Cut" -> {<<"Brilliant">>, <<" ", "Princess">>, << >>}
      [] c = "Carat" -> {<<"3">>, <<" ", "1", "2", " ">>, <<"3", ".", "5">>,
                         <<"three">>, << >>, <<"-", "3">>, <<"1", "_", "0">>}
      [] c = "Clarity" -> {<<"VS">>, << >>}
      [] c = "Rarity" -> {<<"Rare">>, <<" ">>}
      [] c = "image" -> {<<"ipfs://img">>, << >>}
      [] c = "animation_url" -> {<<"ipfs://anim">>, << >>}

\* Every line with one cell per required column.
FullLines ==
    {<<a, b, c, d, e, f, g, h, i, j>> :
        a \in CellValues("ID"), b \in CellValues("name"),
        c \in CellValues("Category"), d \in CellValues("Color"),
        e \in CellValues("Cut"), f \in CellValues("Carat"),
        g \in CellValues("Clarity"), h \in CellValues("Rarity"),
        i \in CellValues("image"), j \in CellValues("animation_url")}

\* s without its i-th element
Without(s, i) == SubSeq(s, 1, i - 1) \o SubSeq(s, i + 1, Len(s))

Table(header, lines, trailer) ==
    [header |-> header, lines |-> lines, trailer |-> trailer]

\* The shapes of a one-row table: <<0, k>> is the full header and a line of
\* k cells; <<i, 0>> is a header that lacks the i-th required column and a
\* line with a cell for each of the rest.
Shapes ==
    {<<0, k>> : k \in 1..Len(REQUIRED_COLUMNS)}
    \cup {<<i, 0>> : i \in 1..Len(REQUIRED_COLUMNS)}

RowStore(l, shape) ==
    IF shape[1] = 0
    THEN Table(REQUIRED_COLUMNS, <<SubSeq(l, 1, shape[2])>>, "eof")
    ELSE Table(Without(REQUIRED_COLUMNS, shape[1]), <<Without(l, shape[1])>>, "eof")

\* The lines of the pipeline specification's tables.
ValidLine ==
    <<<<"g", "1">>, <<"Gem">>, <<"Ruby">>, <<"#", "FF0000">>, <<"Brilliant">>,
      <<"3">>, <<"VS">>, <<"Rare">>, <<"ipfs://img">>, <<"ipfs://anim">>>>

SampleLines ==
    {ValidLine,
     \* the same identifier once trimmed, another document
     [ValidLine EXCEPT ![1] = <<" ", "g", "1", " ">>, ![3] = << >>,
                       ![5] = <<"Princess">>, ![6] = <<" ", "1", "2">>],
     [ValidLine EXCEPT ![1] = <<"g", "2">>],
     \* blank name
     [ValidLine EXCEPT ![2] = <<" ">>],
     \* non-numeric carat
     [ValidLine EXCEPT ![1] = <<"g", "2">>, ![6] = <<"three">>],
     \* blank identifier
     [ValidLine EXCEPT ![1] = <<" ">>],
     \* a line shorter than the header
     <<<<"g", "2">>, <<"Gem">>>>,
     \* an identifier that names a path below the output directory
     [ValidLine EXCEPT ![1] = <<"a", "/", "b">>]}

SeqsUpTo(S, n) == UNION {[1..k -> S] : k \in 0..n}

\* The byte stores of the pipeline specification: up to MaxRows data rows
\* that decode, then the end of the file or bytes that are not UTF-8.
Stores ==
    {Table(REQUIRED_COLUMNS, t, tr) :
        t \in SeqsUpTo(SampleLines, MaxRows), tr \in {"eof", "undecodable"}}

\* A byte store left by an earlier run.
StaleStore == Table(REQUIRED_COLUMNS, <<ValidLine>>, "eof")

\* The host's answers: the export, or one of the errors urlopen raises.
Answers ==
    {[status |-> "ok", data |-> st] : st \in Stores}
    \cup {[status |-> e, data |-> NoFile] :
            e \in {"HTTPError 403", "HTTPError", "URLError", "Exception"}}

NoAnswer == [status |-> "URLError", data |-> NoFile]

EmptyDir == << >>

\* An output directory left by an earlier run.
StaleDir ==
    <<"g", "1">> :>
        [name |-> <<"Old">>,
         description |-> <<"A unique ">> \o <<"Oval">> \o <<" cut gemstone in ">>
                            \o <<"Jade">> \o <<" color.">>,
         attributes |->
            <<[trait_type |-> "Cut", value |-> <<"Oval">>],
              [trait_type |-> "Color", value |-> <<"Jade">>],
              [trait_type |-> "Carat", value |-> 1],
              [trait_type |-> "Clarity", value |-> <<"VS">>],
              [trait_type |-> "Rarity", value |-> <<"Rare">>]>>,
         image |-> <<"ipfs://old">>,
         animation_url |-> <<"ipfs://old">>]

----------------------------------------------------------------------------
(* Specifications *)

InitRun ==
    /\ pc = "start"
    /\ writes = << >>
    /\ processed_count = 0
    /\ skipped_count = 0
    /\ idx = 0
    /\ report = "none"
    /\ fetch = NotFetched
    /\ calls = 0
    /\ exit_code = NoExit

\* The pipeline: main is started with or without --skip-download, over a byte
\* store and an output directory that an earlier run may have left, or an
\* output path at which no directory can be made.
Init ==
    /\ InitRun
    /\ skip_download \in BOOLEAN
    /\ output_dir_ok \in BOOLEAN
    /\ docs \in IF output_dir_ok THEN {EmptyDir, StaleDir} ELSE {EmptyDir}
    /\ IF skip_download
       THEN sheet = NoAnswer /\ csv_file \in {NoFile} \cup Stores
       ELSE sheet \in Answers /\ csv_file \in {NoFile, StaleStore}

Spec == Init /\ [][Next]_vars

\* The row loop over every one-row table: csv_to_json has opened the table.
InitRow ==
    /\ pc = "rows"
    /\ skip_download = TRUE
    /\ output_dir_ok = TRUE
    /\ sheet = NoAnswer
    /\ \E l \in FullLines, shape \in Shapes : csv_file = RowStore(l, shape)
    /\ docs \in {EmptyDir, StaleDir}
    /\ writes = << >>
    /\ processed_count = 0
    /\ skipped_count = 0
    /\ idx = 0
    /\ report = "none"
    /\ fetch = NotFetched
    /\ calls = 1
    /\ exit_code = NoExit

NextRow == ProcessRow \/ EndOfRows

RowSpec == InitRow /\ [][NextRow]_vars

----------------------------------------------------------------------------
(* What the claims read of a run of the pipeline *)

\* The sample lines that hold a complete, writable record, with the document
\* each is to produce, written out by hand.
Doc(name, cut, shown, color, carat) ==
    [name |-> name,
     description |-> <<"A unique ">> \o shown \o <<" cut gemstone in ">> \o color
                        \o <<" color.">>,
     attributes |->
        <<[trait_type |-> "Cut", value |-> cut],
          [trait_type |-> "Color", value |-> color],
          [trait_type |-> "Carat", value |-> carat],
          [trait_type |-> "Clarity", value |-> <<"VS">>],
          [trait_type |-> "Rarity", value |-> <<"Rare">>]>>,
     image |-> <<"ipfs://img">>,
     animation_url |-> <<"ipfs://anim">>]

G1 == <<"g", "1">>
G2 == <<"g", "2">>

LineA == ValidLine
LineB ==
    [ValidLine EXCEPT ![1] = <<" ", "g", "1", " ">>, ![3] = << >>,
                      ![5] = <<"Princess">>, ![6] = <<" ", "1", "2">>]
LineC == [ValidLine EXCEPT ![1] = G2]
LineBlankName == [ValidLine EXCEPT ![2] = <<" ">>]
LineBadCarat == [ValidLine EXCEPT ![1] = G2, ![6] = <<"three">>]

GoodLines == {LineA, LineB, LineC}

ExpectedWrite(l) ==
    CASE l = LineA ->
            <<G1, Doc(<<"Gem">>, <<"Brilliant">>, <<"RoundBrilliant">>, <<"Ruby">>, 3)>>
      [] l = LineB ->
            <<G1, Doc(<<"Gem">>, <<"Princess">>, <<"Princess">>, <<"#", "FF0000">>, 12)>>
      [] l = LineC ->
            <<G2, Doc(<<"Gem">>, <<"Brilliant">>, <<"RoundBrilliant">>, <<"Ruby">>, 3)>>

\* The lines the reader has yielded so far.
Yielded == SubSeq(csv_file.lines, 1, idx)

IsGood(l) == l \in GoodLines

HasBlankId(l) == Strip(l[1]) = << >>

Count(seq, P(_)) == Len(SelectSeq(seq, P))

IsBad(l) == ~IsGood(l) /\ ~HasBlankId(l)

\* The positions of the yielded lines that are to write <id>.json
WritersOf(id) ==
    {i \in 1..idx : IsGood(csv_file.lines[i]) /\ ExpectedWrite(csv_file.lines[i])[1] = id}

Max(S) == CHOOSE x \in S : \A y \in S : y <= x

FetchFailed == ~skip_download /\ fetch.called /\ ~fetch.ok

MissingStore == skip_download /\ csv_file = NoFile

ReadFailed == calls > 0 /\ csv_file.trailer = "undecodable"

----------------------------------------------------------------------------
(* Claims on the pipeline, checked under Spec *)

\* C1: csv_to_json is entered only after the fetch succeeded, or was bypassed
\* with the byte store in place; a failed download, or a bypass without a byte
\* store, ends the run in failure with csv_to_json never entered and no
\* document written.
C1_TransformOnlyAfterFetch ==
    /\ calls > 0 => IF skip_download THEN csv_file # NoFile ELSE fetch.ok
    /\ (pc # "start" /\ (FetchFailed \/ MissingStore)) =>
          /\ pc = "exit"
          /\ exit_code = 1
          /\ calls = 0
          /\ writes = << >>
          /\ docs \in {EmptyDir, StaleDir}

\* C1 witness: the download failed over a byte store of an earlier run, and
\* the run ended without a transform.
C1_Witness ==
    /\ pc = "exit"
    /\ FetchFailed
    /\ csv_file = StaleStore
    /\ calls = 0

OutputDirFailed == calls > 0 /\ ~output_dir_ok

\* C4 as stated: row-level problems never abort the batch.  A run that exits
\* 0 has passed every data row to the loop body; every good line yielded so
\* far has produced its document, whatever came before it; and the exit code
\* is 1 exactly for a failed fetch, a bypass without a byte store, or a table
\* that fails to read.
C4_ExitOneOnlyForThree ==
    /\ pc \in {"rows", "exit"} /\ calls > 0 =>
          Len(writes) = Count(Yielded, IsGood)
    /\ pc = "exit" =>
          /\ exit_code \in {0, 1}
          /\ exit_code = 1 <=> (FetchFailed \/ MissingStore \/ ReadFailed)
          /\ exit_code = 0 => idx = Len(csv_file.lines)
    /\ pc = "rows" /\ idx < Len(csv_file.lines) => exit_code = NoExit

\* C4 amended: as above, the exit code being 1 exactly for a failed fetch, a
\* bypass without a byte store, an output directory that cannot be created,
\* or a table that fails to read.
C4_RowErrorsNeverAbort ==
    /\ pc \in {"rows", "exit"} /\ calls > 0 =>
          Len(writes) = Count(Yielded, IsGood)
    /\ pc = "exit" =>
          /\ exit_code \in {0, 1}
          /\ exit_code = 1 <=>
                \/ FetchFailed
                \/ MissingStore
                \/ OutputDirFailed
                \/ output_dir_ok /\ ReadFailed
          /\ exit_code = 0 => idx = Len(csv_file.lines)
    /\ pc = "rows" /\ idx < Len(csv_file.lines) => exit_code = NoExit

\* C4 witness: two bad rows, then a good row that produced its document, and
\* the run exited 0.
C4_Witness ==
    /\ pc = "exit"
    /\ exit_code = 0
    /\ csv_file.lines = <<LineBlankName, LineBadCarat, LineA>>
    /\ skipped_count = 2
    /\ writes = <<ExpectedWrite(LineA)>>

\* C10: download_csv returns success whenever the response was received and
\* its bytes were written to the destination, and a call that returns failure
\* has not overwritten the destination.
C10_FetchIgnoresContent ==
    fetch.called =>
        /\ (fetch.received /\ fetch.wrote) => fetch.ok
        /\ ~fetch.ok => ~fetch.wrote

\* The counters account for every yielded line, and every document written is
\* counted as processed.
CountersAccountForRows ==
    (pc \in {"rows", "exit"} /\ calls > 0) =>
        /\ processed_count + skipped_count + Count(Yielded, HasBlankId) = idx
        /\ Len(writes) = processed_count
        /\ (pc = "exit" /\ exit_code = 0) => idx = Len(csv_file.lines)

\* The example: one valid row, one row with a blank name, one row with a
\* non-numeric carat give one document and two skipped rows.
ThreeRowExample ==
    (pc = "exit" /\ exit_code = 0
        /\ csv_file.lines = <<LineA, LineBlankName, LineBadCarat>>
        /\ csv_file.trailer = "eof") =>
            /\ Len(writes) = 1
            /\ processed_count = 1
            /\ skipped_count = 2

\* One pass of the loop body has exactly one of the three outcomes.
OneOutcome ==
    idx' = idx + 1 =>
        LET l == csv_file.lines[idx']
        IN  \/ /\ HasBlankId(l)
               /\ writes' = writes /\ docs' = docs
               /\ processed_count' = processed_count
               /\ skipped_count' = skipped_count
            \/ /\ ~HasBlankId(l)
               /\ writes' = writes /\ docs' = docs
               /\ processed_count' = processed_count
               /\ skipped_count' = skipped_count + 1
            \/ /\ ~HasBlankId(l)
               /\ Len(writes') = Len(writes) + 1
               /\ SubSeq(writes', 1, Len(writes)) = writes
               /\ processed_count' = processed_count + 1
               /\ skipped_count' = skipped_count

\* C5: every data row has exactly one of three outcomes: a blank identifier
\* changes nothing; a failed row writes nothing and adds one to the skipped
\* count; otherwise a document is written and one is added to the processed
\* count.  So processed + skipped + blank-identifier rows is the number of
\* rows, and the three-row example gives one document and two skipped rows.
C5_EveryRowOneOutcome ==
    /\ [](CountersAccountForRows /\ ThreeRowExample)
    /\ [][OneOutcome]_vars

\* C5 witness: the three-row example has run to its end.
C5_Witness ==
    /\ pc = "exit"
    /\ exit_code = 0
    /\ csv_file.lines = <<LineA, LineBlankName, LineBadCarat>>
    /\ Len(writes) = 1
    /\ skipped_count = 2

\* C6: rows with the same trimmed identifier are not detected as duplicates:
\* each good row is written, in table order, and none is counted as skipped;
\* <identifier>.json holds the document of the last yielded row that produced
\* one for that identifier, and what an earlier run left where there is none.
C6_LastWriteWins ==
    (pc \in {"rows", "exit"} /\ calls > 0) =>
        LET good == SelectSeq(Yielded, IsGood)
        IN  /\ writes = [i \in 1..Len(good) |-> ExpectedWrite(good[i])]
            /\ skipped_count = Count(Yielded, IsBad)
            /\ \A id \in {G1, G2} :
                  IF WritersOf(id) # {}
                  THEN /\ id \in DOMAIN docs
                       /\ docs[id] = ExpectedWrite(csv_file.lines[Max(WritersOf(id))])[2]
                  ELSE id \in DOMAIN docs =>
                          id \in DOMAIN StaleDir /\ docs[id] = StaleDir[id]

\* C6 witness: two good rows for g1, then a row for g1 with a blank name;
\* g1.json holds the second row's document.
C6_Witness ==
    /\ pc = "exit"
    /\ csv_file.lines = <<LineA, LineB, LineBlankName>>
    /\ Len(writes) = 2
    /\ skipped_count = 1
    /\ docs[G1] = ExpectedWrite(LineB)[2]
    /\ docs[G1] # ExpectedWrite(LineA)[2]

----------------------------------------------------------------------------
(* What the claims read of the one row of the row specification *)

TheHeader == csv_file.header
TheLine == csv_file.lines[1]

\* The line has a cell under column c.
HasCell(c) == \E i \in 1..Len(TheLine) : i <= Len(TheHeader) /\ TheHeader[i] = c

Cell(c) == TheLine[IndexOf(TheHeader, c)]

Trimmed(c) == Strip(Cell(c))

NonIdColumns == Range(REQUIRED_COLUMNS) \ {"ID"}

IdPresent == HasCell("ID") /\ Trimmed("ID") # << >>

AllCells == \A c \in Range(REQUIRED_COLUMNS) : HasCell(c)

\* With every cell in place: one of the eight validated values is blank.
SomeBlank ==
    \/ \E c \in NonIdColumns \ {"Category", "Color"} : Trimmed(c) = << >>
    \/ Trimmed("Category") = << >> /\ Trimmed("Color") = << >>

\* The row passes the completeness validation.
Complete == IdPresent /\ AllCells /\ ~SomeBlank

RowDone == pc \in {"rows", "exit"} /\ idx = 1

WroteOne == Len(writes) = 1

NothingWritten == writes = << >> /\ docs \in {EmptyDir, StaleDir}

TheDoc == writes[1][2]

Attr(i) == TheDoc.attributes[i].value

ResolvedColor ==
    IF HasCell("Category") /\ Trimmed("Category") # << >>
    THEN Trimmed("Category")
    ELSE Trimmed("Color")

----------------------------------------------------------------------------
(* Claims on the row loop, checked under RowSpec *)

\* C2: a row with a non-blank identifier that lacks any one of the nine other
\* required columns writes no document and adds one to the skipped count.
C2_AbsentColumnSkipsRow ==
    (RowDone /\ IdPresent /\ \E c \in NonIdColumns : ~HasCell(c)) =>
        /\ NothingWritten
        /\ skipped_count = 1

\* C3: every document written has a non-blank name, image and animation_url
\* and exactly five attributes, Cut, Color, Carat, Clarity, Rarity in this
\* order, of which Cut, Color, Clarity and Rarity are non-blank; and a row with
\* a non-blank identifier and a blank among name, resolved color, cut, raw
\* carat, clarity, rarity, image, animation_url writes no document and is
\* counted as skipped.
C3_DocumentsComplete ==
    /\ \A w \in 1..Len(writes) :
          LET d == writes[w][2]
          IN  /\ Strip(d.name) # << >>
              /\ Strip(d.image) # << >>
              /\ Strip(d.animation_url) # << >>
              /\ Len(d.attributes) = 5
              /\ [j \in 1..5 |-> d.attributes[j].trait_type]
                    = <<"Cut", "Color", "Carat", "Clarity", "Rarity">>
              /\ \A j \in {1, 2, 4, 5} : Strip(d.attributes[j].value) # << >>
              /\ docs[writes[w][1]] = d
    /\ (RowDone /\ IdPresent /\ AllCells /\ SomeBlank) =>
          /\ NothingWritten
          /\ processed_count = 0
          /\ skipped_count = 1

\* C3 witness: a row whose category is blank and whose color code is not has
\* produced a document.
C3_Witness ==
    /\ RowDone
    /\ WroteOne
    /\ AllCells
    /\ Trimmed("Category") = << >>
    /\ Attr(2) = <<"#", "FF0000">>

\* C7: a row that passes the completeness validation gets the Carat attribute
\* its trimmed raw carat parses to in base 10, an integer; a raw carat that
\* does not parse as an integer writes no document and adds one to the
\* skipped count.
C7_CaratIsParsedInteger ==
    (RowDone /\ Complete) =>
        LET raw == Cell("Carat")
            Is(n) == WroteOne /\ Attr(3) \in Int /\ Attr(3) = n
                        /\ processed_count = 1 /\ skipped_count = 0
            Skipped == NothingWritten /\ processed_count = 0 /\ skipped_count = 1
        IN  CASE raw = <<"3">> -> Is(3)
              [] raw = <<" ", "1", "2", " ">> -> Is(12)
              [] raw = <<"-", "3">> -> Is(0 - 3)
              [] raw = <<"1", "_", "0">> -> Is(10)
              [] raw = <<"3", ".", "5">> -> Skipped
              [] raw = <<"three">> -> Skipped

\* C7 witness: the raw carat " 12 " has become the integer 12.
C7_Witness ==
    /\ RowDone
    /\ Complete
    /\ Cell("Carat") = <<" ", "1", "2", " ">>
    /\ WroteOne
    /\ Attr(3) = 12

\* C8: the description of a written document is "A unique {displayed cut} cut
\* gemstone in {resolved color} color.", the displayed cut being
\* "RoundBrilliant" for the cut "Brilliant" and the cut itself otherwise; the
\* Cut attribute holds the cut itself.
C8_DescriptionAliasesCutOnly ==
    (RowDone /\ WroteOne) =>
        LET cut == Trimmed("Cut")
            shown == IF cut = <<"Brilliant">> THEN <<"RoundBrilliant">> ELSE cut
        IN  /\ TheDoc.description =
                  <<"A unique ">> \o shown \o <<" cut gemstone in ">>
                      \o ResolvedColor \o <<" color.">>
            /\ Attr(1) = cut
            /\ Cell("Cut") = <<"Brilliant">> =>
                  /\ Attr(1) = <<"Brilliant">>
                  /\ TheDoc.description[2] = "RoundBrilliant"
            /\ Cell("Cut") = <<" ", "Princess">> =>
                  /\ Attr(1) = <<"Princess">>
                  /\ TheDoc.description[2] = "Princess"

\* C8 witness: a Brilliant row has produced a document that shows
\* RoundBrilliant in its description and keeps Brilliant as its Cut.
C8_Witness ==
    /\ RowDone
    /\ WroteOne
    /\ Cell("Cut") = <<"Brilliant">>
    /\ Attr(1) = <<"Brilliant">>
    /\ TheDoc.description[2] = "RoundBrilliant"

\* C9: the Color attribute of a written document, and the color of its
\* description, is the row's trimmed Category when that is non-blank and the
\* row's trimmed Color otherwise.
C9_ColorIsCategoryElseCode ==
    (RowDone /\ WroteOne) =>
        LET n == Len(TheDoc.description)
            m == Len(ResolvedColor)
        IN  /\ Attr(2) = ResolvedColor
            /\ SubSeq(TheDoc.description, n - m, n - 1) = ResolvedColor
            /\ TheDoc.description[n - m - 1] = " cut gemstone in "
            /\ (AllCells /\ Cell("Category") = <<"Ruby">>
                    /\ Cell("Color") = <<"#", "FF0000">>) =>
                  Attr(2) = <<"Ruby">>
            /\ (AllCells /\ Cell("Category") = << >>
                    /\ Cell("Color") = <<"#", "FF0000">>) =>
                  Attr(2) = <<"#", "FF0000">>

\* C9 witness: category Ruby over color code #FF0000 has resolved to Ruby.
C9_Witness ==
    /\ RowDone
    /\ WroteOne
    /\ AllCells
    /\ Cell("Category") = <<"Ruby">>
    /\ Cell("Color") = <<"#", "FF0000">>
    /\ Attr(2) = <<"Ruby">>

====
